---- MODULE Spec2Model ----
(***************************************************************************)
(* web2pdf: the batch orchestrator of src/main.rs (main, pdf_tab), the     *)
(* session helpers of web2pdf_lib/src/lib.rs and the cookie-jar parser of  *)
(* web2pdf_lib/src/util.rs, as one state machine.                          *)
(*                                                                         *)
(* Text is a sequence of one-character strings, so that starts_with,       *)
(* slicing, lines() and split('\t') are computed on characters.            *)
(***************************************************************************)
EXTENDS Integers, Sequences, FiniteSets, TLC

VARIABLES
    argv,                \* the URL/PATH command-line words as clap collected them
    raw_url_path_pairs,  \* Cli.raw_url_path_pairs : Option<Vec<String>>
    url_path_pairs,      \* Cli.url_path_pairs : Vec<URLPathPair>
    cli,                 \* the remaining Cli fields the control flow reads
    jar,                 \* the cookie-jar file on disk and the lines it was written from
    mainPc,              \* position of main()
    process,             \* whether the process has exited and with which status
    browser,             \* the rendering session: state, cookies, Arc strong count
    parsed,              \* what parse_cookie_file returned, once it was called
    exit_code,           \* Arc<Mutex<i32>>: the value and the lock's holder
    tasks,               \* one record per work item: the spawned task
    pdfs,                \* destinations a render call has written
    bootFailure,         \* which start-up step failed, if one did
    localFiles,          \* the paths for which Path::is_file() answers true
    contentOf,           \* the content box the page of each work item renders to
    lib                  \* a direct call of PageWeb2Pdf::web2pdf_save_pdf_mono

vars == <<argv, raw_url_path_pairs, url_path_pairs, cli, jar, mainPc, process,
          browser, parsed, exit_code, tasks, pdfs, bootFailure,
          localFiles, contentOf, lib>>

\* what the orchestrator never writes: the file system, the pages' content, and
\* the state of a direct library call
envVars == <<localFiles, contentOf, lib>>

-----------------------------------------------------------------------------
(* Bounds of the model                                                     *)

\* longest URL/PATH word list drawn by Init
MaxArgs == 4
\* most lines of a cookie file drawn by CookieInit
MaxLines == 3

\* indices a work item can have
TaskIds == 1..(MaxArgs \div 2)

-----------------------------------------------------------------------------
(* Text helpers                                                            *)

TAB == "\t"
NL == "\n"

\* str.starts_with(prefix)
StartsWith(s, prefix) ==
    /\ Len(s) >= Len(prefix)
    /\ SubSeq(s, 1, Len(prefix)) = prefix

\* &s[n..]
DropChars(s, n) == SubSeq(s, n + 1, Len(s))

\* position of the first occurrence of character c in s, 0 when there is none
RECURSIVE IndexOf(_, _, _)
IndexOf(s, c, from) ==
    IF from > Len(s) THEN 0
    ELSE IF s[from] = c THEN from
    ELSE IndexOf(s, c, from + 1)

\* str.split(c).collect(): always at least one piece, empty pieces kept
RECURSIVE Split(_, _)
Split(s, c) ==
    LET i == IndexOf(s, c, 1) IN
    IF i = 0 THEN <<s>>
    ELSE <<SubSeq(s, 1, i - 1)>> \o Split(DropChars(s, i), c)

\* str.lines(): pieces end at "\n"; no piece for the empty text after the last "\n"
RECURSIVE Lines(_)
Lines(s) ==
    IF s = <<>> THEN <<>>
    ELSE LET i == IndexOf(s, NL, 1) IN
         IF i = 0 THEN <<s>>
         ELSE <<SubSeq(s, 1, i - 1)>> \o Lines(DropChars(s, i))

Digits == <<"0", "1", "2", "3", "4", "5", "6", "7", "8", "9">>

IsDigit(c) == \E d \in 1..10 : Digits[d] = c

DigitVal(c) == (CHOOSE d \in 1..10 : Digits[d] = c) - 1

RECURSIVE Pow10(_)
Pow10(n) == IF n = 0 THEN 1 ELSE 10 * Pow10(n - 1)

\* value of a run of decimal digits
RECURSIVE DigitsVal(_)
DigitsVal(s) ==
    IF s = <<>> THEN 0
    ELSE 10 * DigitsVal(SubSeq(s, 1, Len(s) - 1)) + DigitVal(s[Len(s)])

\* str.parse::<f64>() on text without exponent, "inf" or "nan": an optional sign,
\* digits with at most one ".", at least one digit.  The value is num / den.
ParseF64(s) ==
    LET signed == s # <<>> /\ s[1] \in {"-", "+"}
        body == IF signed THEN DropChars(s, 1) ELSE s
        dot == IndexOf(body, ".", 1)
        whole == IF dot = 0 THEN body ELSE SubSeq(body, 1, dot - 1)
        frac == IF dot = 0 THEN <<>> ELSE DropChars(body, dot)
        wellFormed == /\ \A i \in 1..Len(whole) : IsDigit(whole[i])
                      /\ \A i \in 1..Len(frac) : IsDigit(frac[i])
                      /\ Len(whole) + Len(frac) >= 1
        magnitude == DigitsVal(whole \o frac)
    IN IF wellFormed
       THEN [ok |-> TRUE,
             num |-> IF signed /\ s[1] = "-" THEN 0 - magnitude ELSE magnitude,
             den |-> Pow10(Len(frac))]
       ELSE [ok |-> FALSE, num |-> 0, den |-> 1]

-----------------------------------------------------------------------------
(* util.rs: parse_cookie_file                                              *)

HttpOnlyMarker == <<"#", "H", "t", "t", "p", "O", "n", "l", "y", "_">>
TrueLit == <<"T", "R", "U", "E">>
FalseLit == <<"F", "A", "L", "S", "E">>

\* faulty variant: same_site is Lax only for the literal FALSE
CookieFromLineStrictUnlessFalse(line) ==
    LET cookie_args == Split(line, TAB)
        expires == ParseF64(cookie_args[5])
    IN IF Len(cookie_args) # 7
       THEN [kind |-> "err", why |-> "Wrong number of arguments", line |-> line]
       ELSE IF ~expires.ok
       THEN [kind |-> "err", why |-> "Could not convert time", line |-> line]
       ELSE [kind |-> "cookie",
             cookie |-> [source_port |-> -1,
                         domain |-> cookie_args[1],
                         same_site |-> IF cookie_args[2] = FalseLit
                                       THEN "Lax" ELSE "Strict",
                         path |-> cookie_args[3],
                         http_only |-> (cookie_args[4] = TrueLit),
                         expires |-> [num |-> expires.num, den |-> expires.den],
                         name |-> cookie_args[6],
                         value |-> cookie_args[7]]]

\* the body of the loop from the split on: the field count, the builder calls
\* and the expiry conversion
CookieFromLine(line) ==
    LET cookie_args == Split(line, TAB)
        expires == ParseF64(cookie_args[5])
    IN IF Len(cookie_args) # 7
       THEN [kind |-> "err", why |-> "Wrong number of arguments", line |-> line]
       ELSE IF ~expires.ok
       THEN [kind |-> "err", why |-> "Could not convert time", line |-> line]
       ELSE [kind |-> "cookie",
             cookie |-> [source_port |-> -1,
                         domain |-> cookie_args[1],
                         same_site |-> IF cookie_args[2] = TrueLit
                                       THEN "Strict" ELSE "Lax",
                         path |-> cookie_args[3],
                         \* the builder's http_only(true) of the marker branch is
                         \* overwritten by this later http_only(..) call
                         http_only |-> (cookie_args[4] = TrueLit),
                         expires |-> [num |-> expires.num, den |-> expires.den],
                         name |-> cookie_args[6],
                         value |-> cookie_args[7]]]

\* faulty variant: the # comment test comes first, so #HttpOnly_ lines are skipped
ParseCookieLineHashFirst(line_unchanged) ==
    IF StartsWith(line_unchanged, <<"#">>)
    THEN [kind |-> "skip"]
    ELSE CookieFromLine(line_unchanged)

\* one iteration of the loop over file_contents.lines(): "skip" (continue),
\* "err" (return Err) or "cookie" (push)
ParseCookieLine(line_unchanged) ==
    IF StartsWith(line_unchanged, HttpOnlyMarker)
    THEN CookieFromLine(DropChars(line_unchanged, 10))
    ELSE IF StartsWith(line_unchanged, <<"#">>)
    THEN [kind |-> "skip"]
    ELSE CookieFromLine(line_unchanged)

\* faulty variant: a malformed line is skipped and the other records are kept
RECURSIVE ParseCookieLoopLenient(_, _)
ParseCookieLoopLenient(lines, cookies) ==
    IF lines = <<>> THEN [ok |-> TRUE, cookies |-> cookies]
    ELSE LET r == ParseCookieLine(Head(lines)) IN
         CASE r.kind = "cookie" ->
                ParseCookieLoopLenient(Tail(lines), Append(cookies, r.cookie))
           [] OTHER -> ParseCookieLoopLenient(Tail(lines), cookies)

\* the loop: the first "err" line returns Err and drops the cookies pushed so far
RECURSIVE ParseCookieLoop(_, _)
ParseCookieLoop(lines, cookies) ==
    IF lines = <<>> THEN [ok |-> TRUE, cookies |-> cookies]
    ELSE LET r == ParseCookieLine(Head(lines)) IN
         CASE r.kind = "skip" -> ParseCookieLoop(Tail(lines), cookies)
           [] r.kind = "err" -> [ok |-> FALSE, why |-> r.why, line |-> r.line]
           [] r.kind = "cookie" ->
                ParseCookieLoop(Tail(lines), Append(cookies, r.cookie))

parse_cookie_file(file_contents) == ParseCookieLoop(Lines(file_contents), <<>>)

-----------------------------------------------------------------------------
(* Cookie files of the model.  A file is written from line descriptors: an  *)
(* optional #HttpOnly_ marker followed by fields joined with tabs, each     *)
(* line ended by a newline.                                                 *)

RECURSIVE JoinFields(_)
JoinFields(fields) ==
    IF Len(fields) = 1 THEN fields[1]
    ELSE fields[1] \o <<TAB>> \o JoinFields(Tail(fields))

LineText(d) == (IF d.marked THEN HttpOnlyMarker ELSE <<>>) \o JoinFields(d.fields)

RECURSIVE FileText(_)
FileText(ds) ==
    IF ds = <<>> THEN <<>>
    ELSE LineText(Head(ds)) \o <<NL>> \o FileText(Tail(ds))

DataFields(f2, f4, expiry, name, value) ==
    <<(<<"d">>), f2, (<<"/">>), f4, expiry, name, value>>

\* data lines with a numeric expiry, unmarked and marked
LineSid == [marked |-> FALSE,
            fields |-> DataFields(TrueLit, FalseLit, <<"1", "7">>, <<"s">>, <<"a">>)]
LineTok == [marked |-> FALSE,
            fields |-> DataFields(FalseLit, TrueLit, <<"1", ".", "5">>, <<"t">>, <<"b">>)]
LineMarkedFalse == [marked |-> TRUE,
            fields |-> DataFields(FalseLit, FalseLit, <<"0">>, <<"u">>, <<"c">>)]
LineMarkedTrue == [marked |-> TRUE,
            fields |-> DataFields(TrueLit, TrueLit, <<"-", "1">>, <<"w">>, <<"e">>)]
\* a data line whose field 2 is neither literal, with a name and a value that
\* hold an escape and a space
LineLower == [marked |-> FALSE,
            fields |-> <<(<<"e", ".", "x">>), (<<"t", "r", "u", "e">>), (<<"/", "p">>),
                         FalseLit, (<<"1">>), (<<"%", "2", "0">>), (<<"v", " ">>)>>]
\* comments: plain, and one that happens to hold six tabs
LineComment == [marked |-> FALSE, fields |-> <<(<<"#", " ", "c">>)>>]
LineCommentTabs == [marked |-> FALSE,
            fields |-> <<(<<"#">>), <<>>, <<>>, <<>>, <<>>, <<>>, <<>> >>]
\* an entirely blank line
LineBlank == [marked |-> FALSE, fields |-> << <<>> >>]
\* malformed lines: six fields, eight fields, a marked line of six fields,
\* an expiry that is no number, an empty expiry
LineSix == [marked |-> FALSE,
            fields |-> <<(<<"d">>), TrueLit, (<<"/">>), FalseLit, (<<"1">>), (<<"n">>)>>]
LineEight == [marked |-> FALSE,
            fields |-> DataFields(TrueLit, FalseLit, <<"1">>, <<"n">>, <<"v">>)
                          \o <<(<<"x">>)>>]
LineMarkedSix == [marked |-> TRUE,
            fields |-> <<(<<"d">>), TrueLit, (<<"/">>), FalseLit, (<<"1">>), (<<"n">>)>>]
LineBadExpiry == [marked |-> FALSE,
            fields |-> DataFields(TrueLit, FalseLit, <<"x">>, <<"n">>, <<"v">>)]
LineNoExpiry == [marked |-> FALSE,
            fields |-> DataFields(TrueLit, FalseLit, <<>>, <<"n">>, <<"v">>)]

GoodDataLines == {LineSid, LineTok, LineMarkedFalse, LineMarkedTrue, LineLower}
CommentLines == {LineComment, LineCommentTabs}
MalformedLines == {LineSix, LineEight, LineMarkedSix, LineBadExpiry, LineNoExpiry}
LineChoices == GoodDataLines \cup CommentLines \cup {LineBlank} \cup MalformedLines

\* all sequences over S of length at most n
RECURSIVE SeqsUpTo(_, _)
SeqsUpTo(S, n) ==
    IF n = 0 THEN {<<>>}
    ELSE LET shorter == SeqsUpTo(S, n - 1) IN
         shorter \cup {Append(q, x) : q \in {r \in shorter : Len(r) = n - 1}, x \in S}

JarOf(ds) == [readable |-> TRUE, lines |-> ds, contents |-> FileText(ds)]
UnreadableJar == [readable |-> FALSE, lines |-> <<>>, contents |-> <<>>]

\* the cookie jars of the orchestrator's specification
SpecJars == {JarOf(<<LineComment, LineSid, LineMarkedTrue>>),
             JarOf(<<LineSid, LineSix>>),
             UnreadableJar}

-----------------------------------------------------------------------------
(* main.rs: Cli and its work items                                         *)

NoneArgs == [some |-> FALSE, v |-> <<>>]
SomeArgs(v) == [some |-> TRUE, v |-> v]

\* words the URL/PATH arguments are drawn from
ArgWords == {"https://a.test", "/doc/a.html", "/tmp/a.pdf"}

\* the file system of the orchestrator's specification: the existing files
LocalFiles == {"/doc/a.html"}

\* all sequences over S of length lo..hi
SeqsBetween(S, lo, hi) == {q \in SeqsUpTo(S, hi) : Len(q) >= lo}

\* faulty variant: overlapping windows instead of disjoint chunks
ChunksSliding(raw) ==
    [i \in 1..(Len(raw) \div 2) |-> [url |-> raw[i], path |-> raw[i + 1]]]

\* raw.chunks_exact(2) mapped to URLPathPair
ChunksExact2(raw) ==
    [i \in 1..(Len(raw) \div 2) |-> [url |-> raw[2 * i - 1], path |-> raw[2 * i]]]

\* faulty variant: every location is rewritten, whether it is a file or not
NormalizeUrlAlways(url) == "file://" \o url

\* the loop of main over url_path_pairs.iter_mut(): Path::new(&pair.url).is_file()
NormalizeUrl(url) == IF url \in localFiles THEN "file://" \o url ELSE url

NormalizePairs(pairs) ==
    [i \in DOMAIN pairs |-> [url |-> NormalizeUrl(pairs[i].url), path |-> pairs[i].path]]

\* what the operating system reports for std::process::exit(code)
ExitStatusOf(code) == code % 256

Exited(code) == [exited |-> TRUE, status |-> ExitStatusOf(code)]

-----------------------------------------------------------------------------
(* Print options.  A length is an integer count of 1/960000 inch, so that   *)
(* pixels / 96 and inches given to four decimals are both exact; the        *)
(* rounding of f64 arithmetic is not modelled.  A scale is in hundredths.   *)

\* a length given in ten-thousandths of an inch
Inch4(t) == t * 96

\* pixels / 96.0, in inches
PxToInches(px) == px * 10000

\* (inches * 96.0) as u32
InchesToPx(len) == len \div 10000

NoneNum == [some |-> FALSE, v |-> 0]
SomeNum(x) == [some |-> TRUE, v |-> x]
NoneStr == [some |-> FALSE, v |-> ""]
SomeStr(x) == [some |-> TRUE, v |-> x]
NoneBool == [some |-> FALSE, v |-> FALSE]
SomeBool(b) == [some |-> TRUE, v |-> b]

\* Option::unwrap_or
UnwrapOr(o, default) == IF o.some THEN o.v ELSE default

\* clap's default_value_t of the four margins
CliDefaultMargin == Inch4(3937)

\* faulty variant: an unset margin counts as the command line's default
MonoDefaultMarginOfCli == CliDefaultMargin

\* the margin web2pdf_save_pdf_mono assumes for an unset one
MonoDefaultMargin == Inch4(4000)

\* the print fields of Cli as clap fills them when no option is given
DefaultPdfCli ==
    [landscape |-> FALSE, display_header_footer |-> FALSE,
     disable_print_background |-> FALSE,
     paper_width |-> NoneNum, paper_height |-> NoneNum,
     margin_top |-> CliDefaultMargin, margin_bottom |-> CliDefaultMargin,
     margin_left |-> CliDefaultMargin, margin_right |-> CliDefaultMargin,
     page_ranges |-> NoneStr, header_template |-> NoneStr,
     footer_template |-> NoneStr, disable_prefer_css_page_size |-> FALSE,
     scale |-> NoneNum]

\* every print option given on the command line
CustomPdfCli ==
    [landscape |-> TRUE, display_header_footer |-> TRUE,
     disable_print_background |-> TRUE,
     paper_width |-> SomeNum(Inch4(85000)), paper_height |-> SomeNum(Inch4(110000)),
     margin_top |-> Inch4(10000), margin_bottom |-> Inch4(0),
     margin_left |-> Inch4(5000), margin_right |-> Inch4(2500),
     page_ranges |-> SomeStr("2-3"), header_template |-> SomeStr("<h/>"),
     footer_template |-> SomeStr("<f/>"), disable_prefer_css_page_size |-> TRUE,
     scale |-> SomeNum(200)]

\* a fixed paper size and a scale, the rest left at the defaults
PaperPdfCli ==
    [DefaultPdfCli EXCEPT !.paper_width = SomeNum(Inch4(85000)),
                          !.paper_height = SomeNum(Inch4(110000)),
                          !.scale = SomeNum(50)]

PdfCliChoices == {DefaultPdfCli, CustomPdfCli, PaperPdfCli}

\* a Cli value: the mode flags, the cookie jar and the print fields
CliOf(mono, screen, cookie_jar, pdf) ==
    [mono_page |-> mono, screen_media_type |-> screen, cookie_jar |-> cookie_jar,
     landscape |-> pdf.landscape,
     display_header_footer |-> pdf.display_header_footer,
     disable_print_background |-> pdf.disable_print_background,
     paper_width |-> pdf.paper_width, paper_height |-> pdf.paper_height,
     margin_top |-> pdf.margin_top, margin_bottom |-> pdf.margin_bottom,
     margin_left |-> pdf.margin_left, margin_right |-> pdf.margin_right,
     page_ranges |-> pdf.page_ranges, header_template |-> pdf.header_template,
     footer_template |-> pdf.footer_template,
     disable_prefer_css_page_size |-> pdf.disable_prefer_css_page_size,
     scale |-> pdf.scale]

\* faulty variant: a margin left at clap's default is not handed to the builder
PdfParamsOmitsDefaultMargins(c) ==
    LET margin(m) == IF m = CliDefaultMargin THEN NoneNum ELSE SomeNum(m) IN
    [landscape |-> SomeBool(c.landscape),
     display_header_footer |-> SomeBool(c.display_header_footer),
     print_background |-> SomeBool(~c.disable_print_background),
     scale |-> c.scale,
     paper_width |-> c.paper_width, paper_height |-> c.paper_height,
     margin_top |-> margin(c.margin_top), margin_bottom |-> margin(c.margin_bottom),
     margin_left |-> margin(c.margin_left), margin_right |-> margin(c.margin_right),
     page_ranges |-> c.page_ranges,
     header_template |-> c.header_template, footer_template |-> c.footer_template,
     prefer_css_page_size |-> SomeBool(~c.disable_prefer_css_page_size)]

\* pdf_tab: the PrintToPdfParams built from the shared Cli
PdfParams(c) ==
    [landscape |-> SomeBool(c.landscape),
     display_header_footer |-> SomeBool(c.display_header_footer),
     print_background |-> SomeBool(~c.disable_print_background),
     scale |-> c.scale,
     paper_width |-> c.paper_width, paper_height |-> c.paper_height,
     margin_top |-> SomeNum(c.margin_top), margin_bottom |-> SomeNum(c.margin_bottom),
     margin_left |-> SomeNum(c.margin_left), margin_right |-> SomeNum(c.margin_right),
     page_ranges |-> c.page_ranges,
     header_template |-> c.header_template, footer_template |-> c.footer_template,
     prefer_css_page_size |-> SomeBool(~c.disable_prefer_css_page_size)]

\* web2pdf_save_pdf_mono_standard: the builder with two fields set
MonoStandardParams ==
    [landscape |-> NoneBool, display_header_footer |-> NoneBool,
     print_background |-> SomeBool(TRUE),
     scale |-> NoneNum, paper_width |-> NoneNum, paper_height |-> NoneNum,
     margin_top |-> NoneNum, margin_bottom |-> NoneNum,
     margin_left |-> NoneNum, margin_right |-> NoneNum,
     page_ranges |-> NoneStr, header_template |-> NoneStr,
     footer_template |-> NoneStr, prefer_css_page_size |-> SomeBool(TRUE)]

\* faulty variant: a fixed paper size given by the caller is kept
MonoOverwriteKeepsPaper(opts, layout) ==
    [opts EXCEPT
        !.scale = NoneNum,
        !.landscape = SomeBool(FALSE),
        !.paper_height = IF @.some THEN @
                         ELSE SomeNum(PxToInches(layout.height)
                                      + UnwrapOr(opts.margin_top, MonoDefaultMargin)
                                      + UnwrapOr(opts.margin_bottom, MonoDefaultMargin)),
        !.paper_width = IF @.some THEN @
                        ELSE SomeNum(PxToInches(layout.width)
                                     + UnwrapOr(opts.margin_left, MonoDefaultMargin)
                                     + UnwrapOr(opts.margin_right, MonoDefaultMargin)),
        !.page_ranges = SomeStr("1")]

\* web2pdf_save_pdf_mono: what it writes into opts once the layout is known
MonoOverwrite(opts, layout) ==
    [opts EXCEPT
        !.scale = NoneNum,
        !.landscape = SomeBool(FALSE),
        !.paper_height = SomeNum(PxToInches(layout.height)
                                 + UnwrapOr(opts.margin_top, MonoDefaultMargin)
                                 + UnwrapOr(opts.margin_bottom, MonoDefaultMargin)),
        !.paper_width = SomeNum(PxToInches(layout.width)
                                + UnwrapOr(opts.margin_left, MonoDefaultMargin)
                                + UnwrapOr(opts.margin_right, MonoDefaultMargin)),
        !.page_ranges = SomeStr("1")]

\* content boxes a page may render to, in CSS pixels
Content960 == [width |-> 960, height |-> 1200]
ContentTall == [width |-> 717, height |-> 2092]
ContentSizes == {Content960, ContentTall}

\* ViewportWeb2Pdf::web2pdf_viewport
web2pdf_viewport == [width |-> 717, height |-> 1046, device_scale_factor |-> SomeNum(100)]

\* main: the viewport of the browser config, from scale and the fixed paper size
ViewportOf(c) ==
    [width |-> IF c.paper_width.some THEN InchesToPx(c.paper_width.v)
               ELSE web2pdf_viewport.width,
     height |-> IF c.paper_height.some THEN InchesToPx(c.paper_height.v)
                ELSE web2pdf_viewport.height,
     device_scale_factor |-> IF c.scale.some THEN SomeNum(c.scale.v)
                             ELSE web2pdf_viewport.device_scale_factor]

-----------------------------------------------------------------------------
(* Initial states: the process as it enters main                           *)

NoBrowser == [state |-> "none", cookies |-> <<>>, refs |-> 0, events |-> <<>>,
              viewport |-> web2pdf_viewport]

\* no direct library call is in progress
LibIdle == [pc |-> "idle", incoming |-> MonoStandardParams,
            opts |-> MonoStandardParams, content |-> Content960,
            layout |-> <<>>, rendered |-> <<>>, result |-> "none"]

\* a cookie the session may hold before clear_cookies
StaleCookie == [source_port |-> -1, domain |-> <<"o">>, same_site |-> "Lax",
                path |-> <<"/">>, http_only |-> FALSE,
                expires |-> [num |-> 0, den |-> 1], name |-> <<"k">>, value |-> <<"z">>]

CliChoices == {CliOf(mono, screen, cookie_jar, DefaultPdfCli) :
                  mono \in BOOLEAN, screen \in BOOLEAN, cookie_jar \in {"None", "Some"}}

InitOrchestrator ==
    /\ raw_url_path_pairs = SomeArgs(argv)
    /\ url_path_pairs = <<>>
    /\ mainPc = "parse_args"
    /\ process = [exited |-> FALSE, status |-> 0]
    /\ browser = NoBrowser
    /\ parsed = <<>>
    /\ exit_code = [value |-> 0, holder |-> 0]
    /\ tasks = <<>>
    /\ pdfs = {}
    /\ bootFailure = "none"

InitCommon ==
    /\ InitOrchestrator
    /\ lib = LibIdle

Init ==
    /\ argv \in SeqsBetween(ArgWords, 2, MaxArgs)
    /\ cli \in CliChoices
    /\ jar \in (IF cli.cookie_jar = "Some" THEN SpecJars ELSE {UnreadableJar})
    /\ localFiles = LocalFiles
    /\ contentOf = [t \in TaskIds |-> Content960]
    /\ InitCommon

\* one work item, every cookie file of at most MaxLines lines
CookieInit ==
    /\ argv = <<"https://a.test", "/tmp/a.pdf">>
    /\ cli = CliOf(TRUE, TRUE, "Some", DefaultPdfCli)
    /\ jar \in {JarOf(ds) : ds \in SeqsUpTo(LineChoices, MaxLines)}
    /\ localFiles = LocalFiles
    /\ contentOf = [t \in TaskIds |-> Content960]
    /\ InitCommon

-----------------------------------------------------------------------------
(* main: start-up                                                          *)

Running == ~process.exited

\* faulty variant: the error is logged and main goes on to spawn the tasks
FatalContinues(why) ==
    /\ bootFailure' = why
    /\ mainPc' = "spawn"
    /\ UNCHANGED process

\* std::process::exit(1) of a start-up failure, and main returning Err
FatalStartup(why) ==
    /\ bootFailure' = why
    /\ mainPc' = "exited"
    /\ process' = Exited(1)

\* Cli::parse().replace_url_path_pairs()
ReplaceUrlPathPairs ==
    /\ Running /\ mainPc = "parse_args"
    /\ raw_url_path_pairs.some
    /\ IF Len(raw_url_path_pairs.v) % 2 # 0
       THEN /\ FatalStartup("odd_args")
            /\ UNCHANGED <<raw_url_path_pairs, url_path_pairs>>
       ELSE /\ url_path_pairs' = url_path_pairs \o ChunksExact2(raw_url_path_pairs.v)
            /\ raw_url_path_pairs' = NoneArgs
            /\ mainPc' = "normalize"
            /\ UNCHANGED <<process, bootFailure>>
    /\ UNCHANGED <<envVars, argv, cli, jar, browser, parsed, exit_code, tasks, pdfs>>

\* the is_file() loop of main
NormalizeLocations ==
    /\ Running /\ mainPc = "normalize"
    /\ url_path_pairs' = NormalizePairs(url_path_pairs)
    /\ mainPc' = "launch"
    /\ UNCHANGED <<envVars, argv, raw_url_path_pairs, cli, jar, process, browser, parsed,
                   exit_code, tasks, pdfs, bootFailure>>

\* BrowserConfig build and Browser::web2pdf_launch_from_config, wrapped in Arc::new
LaunchBrowser ==
    /\ Running /\ mainPc = "launch"
    /\ \E ok \in BOOLEAN, stored \in {<<>>, <<StaleCookie>>} :
          IF ok
          THEN /\ browser' = [state |-> "launched", cookies |-> stored, refs |-> 1,
                             events |-> <<"launch">>, viewport |-> ViewportOf(cli)]
               /\ mainPc' = "clear_cookies"
               /\ UNCHANGED <<process, bootFailure>>
          ELSE /\ FatalStartup("launch")
               /\ UNCHANGED browser
    /\ UNCHANGED <<envVars, argv, raw_url_path_pairs, url_path_pairs, cli, jar, parsed,
                   exit_code, tasks, pdfs>>

\* faulty variant: the cookie jar is never loaded
AfterClearCookiesSkipsJar == "spawn"

\* the match on cli.cookie_jar: where main goes once the cookies are cleared
AfterClearCookies == IF cli.cookie_jar = "Some" THEN "read_cookie_file" ELSE "spawn"

\* browser.clear_cookies().await?, then the match on cli.cookie_jar
ClearCookies ==
    /\ Running /\ mainPc = "clear_cookies"
    /\ \E ok \in BOOLEAN :
          IF ok
          THEN /\ browser' = [browser EXCEPT !.cookies = <<>>,
                                              !.events = Append(@, "clear_cookies")]
               /\ mainPc' = AfterClearCookies
               /\ UNCHANGED <<process, bootFailure>>
          ELSE /\ FatalStartup("clear_cookies")
               /\ UNCHANGED browser
    /\ UNCHANGED <<envVars, argv, raw_url_path_pairs, url_path_pairs, cli, jar, parsed,
                   exit_code, tasks, pdfs>>

\* web2pdf_load_cookie_file: fs::read_to_string(file).await?, then
\* util::parse_cookie_file(&file_contents)?
ReadAndParseCookieFile ==
    /\ Running /\ mainPc = "read_cookie_file"
    /\ IF ~jar.readable
       THEN /\ FatalStartup("cookie_read")
            /\ UNCHANGED parsed
       ELSE LET cookies == parse_cookie_file(jar.contents) IN
            /\ parsed' = Append(parsed, cookies)
            /\ IF cookies.ok
               THEN /\ mainPc' = "set_cookies"
                    /\ UNCHANGED <<process, bootFailure>>
               ELSE FatalStartup("cookie_parse")
    /\ UNCHANGED <<envVars, argv, raw_url_path_pairs, url_path_pairs, cli, jar, browser,
                   exit_code, tasks, pdfs>>

\* web2pdf_load_cookie_file: self.set_cookies(cookies).await?
SetCookies ==
    /\ Running /\ mainPc = "set_cookies"
    /\ \E ok \in BOOLEAN :
          IF ok
          THEN /\ browser' = [browser EXCEPT
                                 !.cookies = @ \o parsed[Len(parsed)].cookies,
                                 !.events = Append(@, "set_cookies")]
               /\ mainPc' = "spawn"
               /\ UNCHANGED <<process, bootFailure>>
          ELSE /\ FatalStartup("cookie_install")
               /\ UNCHANGED browser
    /\ UNCHANGED <<envVars, argv, raw_url_path_pairs, url_path_pairs, cli, jar, parsed,
                   exit_code, tasks, pdfs>>

-----------------------------------------------------------------------------
(* main: fan-out.  tokio::spawn starts a task at once, so tasks already     *)
(* spawned run while main is still spawning the rest.                       *)

\* the task as tokio::spawn creates it: pdf_tab has built its own pdf_params from
\* the shared Cli and is about to await browser.new_page
NewTask == [pc |-> "new_page", error |-> FALSE, tmp |-> 0, calls |-> <<>>,
            outcome |-> "none", outcomes |-> 0, incs |-> 0,
            media |-> "default", page |-> "none",
            opts |-> PdfParams(cli), layout |-> <<>>, rendered |-> <<>>]

\* join_all(tasks) drives the map closure: clone the three Arcs, tokio::spawn
SpawnTask ==
    /\ Running /\ mainPc = "spawn"
    /\ Len(tasks) < Len(url_path_pairs)
    /\ tasks' = Append(tasks, NewTask)
    /\ browser' = [browser EXCEPT !.refs = @ + 1]
    /\ mainPc' = IF Len(tasks) + 1 = Len(url_path_pairs) THEN "join" ELSE "spawn"
    /\ UNCHANGED <<envVars, argv, raw_url_path_pairs, url_path_pairs, cli, jar, process,
                   parsed, exit_code, pdfs, bootFailure>>

-----------------------------------------------------------------------------
(* pdf_tab and the task body around it                                     *)

\* an engine call, its result, and the media type the page emulated when it was made
Call(op, ok, media) == [op |-> op, ok |-> ok, media |-> media]

\* an engine call of task t returned Ok: the task goes on to its next await
StepOk(ts, t, op, next) ==
    [ts EXCEPT ![t] = [@ EXCEPT !.pc = next, !.calls = Append(@, Call(op, TRUE, ts[t].media))]]

\* faulty variant: the failure of one task ends every unfinished task as failed
TaskFailedAbortsAll(ts, t, op) ==
    [u \in DOMAIN ts |->
        IF ts[u].pc = "done" THEN ts[u]
        ELSE [ts[u] EXCEPT !.pc = "lock", !.error = TRUE,
                           !.calls = IF u = t THEN Append(@, Call(op, FALSE, ts[t].media))
                                    ELSE @,
                           !.outcome = "failed", !.outcomes = @ + 1]]

\* faulty variant: after a failed call the task still goes on to close its page
TaskFailedClosesPage(ts, t, op) ==
    [ts EXCEPT ![t] = [@ EXCEPT !.pc = "close_page", !.error = TRUE,
                                !.calls = Append(@, Call(op, FALSE, ts[t].media)),
                                !.outcome = "failed", !.outcomes = @ + 1]]

\* faulty variant: the first failed call of a task is made a second time
TaskFailedRetries(ts, t, op) ==
    IF \A k \in DOMAIN ts[t].calls : ts[t].calls[k].ok
    THEN [ts EXCEPT ![t].calls = Append(@, Call(op, FALSE, ts[t].media))]
    ELSE [ts EXCEPT ![t] = [@ EXCEPT !.pc = "lock", !.error = TRUE,
                                     !.calls = Append(@, Call(op, FALSE, ts[t].media)),
                                     !.outcome = "failed", !.outcomes = @ + 1]]

\* an engine call of task t returned Err: `?` leaves pdf_tab, the match arm logs
\* the error and sets error = true, and the task goes for the counter's lock
TaskFailed(ts, t, op) ==
    [ts EXCEPT ![t] = [@ EXCEPT !.pc = "lock", !.error = TRUE,
                                !.calls = Append(@, Call(op, FALSE, ts[t].media)),
                                !.outcome = "failed", !.outcomes = @ + 1]]

\* pdf_tab returned Ok(()): the match arm logs success, error stays false, the
\* task ends and drops its Arc clones
TaskSucceeded(ts, t, op) ==
    [ts EXCEPT ![t] = [@ EXCEPT !.pc = "done",
                                !.calls = Append(@, Call(op, TRUE, ts[t].media)),
                                !.outcome = "ok", !.outcomes = @ + 1]]

\* faulty variant: every task works on the options value of the first task
SharedOpts(ts, t) == ts[1].opts

\* the options value task t holds: pdf_params, moved into web2pdf_save_pdf_mono
TaskOpts(ts, t) == ts[t].opts

\* faulty variant: a finished task keeps its clone of the browser Arc alive
KeepTaskArcs(b) == b

\* the end of a task drops its clones of the three Arcs
DropTaskArcs(b) == [b EXCEPT !.refs = @ - 1]

\* faulty variant: the mono branch renders without measuring the layout
AfterMediaSkipsMeasure == "save_pdf"

\* where pdf_tab goes once the page's media type is settled
AfterMedia == IF cli.mono_page THEN "layout_metrics" ELSE "save_pdf"

\* faulty variant: the screen emulation is skipped
AfterPrintSkipsScreen == AfterMedia

\* where pdf_tab goes once web2pdf_new_page has returned the page
AfterPrint == IF cli.screen_media_type THEN "emulate_screen" ELSE AfterMedia

\* faulty variant: the page is handed to pdf_tab without the print emulation
AfterNewPageSkipsPrint == AfterPrint

\* web2pdf_new_page: once new_page has returned, the print emulation comes next
AfterNewPage == "emulate_print"

TaskAt(t, pc) == Running /\ t \in DOMAIN tasks /\ tasks[t].pc = pc

\* web2pdf_new_page: self.new_page(params).await?
NewPage(t) ==
    /\ TaskAt(t, "new_page")
    /\ \E ok \in BOOLEAN :
          tasks' = IF ok
                   THEN [StepOk(tasks, t, "new_page", AfterNewPage)
                            EXCEPT ![t].page = "open"]
                   ELSE TaskFailed(tasks, t, "new_page")
    /\ UNCHANGED <<envVars, argv, raw_url_path_pairs, url_path_pairs, cli, jar, mainPc,
                   process, browser, parsed, exit_code, pdfs, bootFailure>>

\* web2pdf_new_page: page.emulate_media_type(MediaTypeParams::Print).await?
EmulatePrint(t) ==
    /\ TaskAt(t, "emulate_print")
    /\ \E ok \in BOOLEAN :
          tasks' = IF ok
                   THEN [StepOk(tasks, t, "emulate_print", AfterPrint)
                            EXCEPT ![t].media = "print"]
                   ELSE TaskFailed(tasks, t, "emulate_print")
    /\ UNCHANGED <<envVars, argv, raw_url_path_pairs, url_path_pairs, cli, jar, mainPc,
                   process, browser, parsed, exit_code, pdfs, bootFailure>>

\* pdf_tab: page.emulate_media_type(MediaTypeParams::Screen).await?
EmulateScreen(t) ==
    /\ TaskAt(t, "emulate_screen")
    /\ \E ok \in BOOLEAN :
          tasks' = IF ok
                   THEN [StepOk(tasks, t, "emulate_screen", AfterMedia)
                            EXCEPT ![t].media = "screen"]
                   ELSE TaskFailed(tasks, t, "emulate_screen")
    /\ UNCHANGED <<envVars, argv, raw_url_path_pairs, url_path_pairs, cli, jar, mainPc,
                   process, browser, parsed, exit_code, pdfs, bootFailure>>

\* web2pdf_save_pdf_mono: self.layout_metrics().await?
LayoutMetrics(t) ==
    /\ TaskAt(t, "layout_metrics")
    /\ \E ok \in BOOLEAN :
          tasks' = IF ok
                   THEN [StepOk(tasks, t, "layout_metrics", "save_pdf")
                            EXCEPT ![t].layout = <<contentOf[t]>>,
                                   ![t].opts = MonoOverwrite(TaskOpts(tasks, t),
                                                             contentOf[t])]
                   ELSE TaskFailed(tasks, t, "layout_metrics")
    /\ UNCHANGED <<envVars, argv, raw_url_path_pairs, url_path_pairs, cli, jar, mainPc,
                   process, browser, parsed, exit_code, pdfs, bootFailure>>

\* page.save_pdf(params, &pair.path).await?, in pdf_tab or in web2pdf_save_pdf_mono
SavePdf(t) ==
    /\ TaskAt(t, "save_pdf")
    /\ \E ok \in BOOLEAN :
          IF ok
          THEN /\ tasks' = [StepOk(tasks, t, "save_pdf", "close_page")
                               EXCEPT ![t].rendered = Append(@, TaskOpts(tasks, t))]
               /\ pdfs' = pdfs \cup {url_path_pairs[t].path}
          ELSE /\ tasks' = [TaskFailed(tasks, t, "save_pdf")
                               EXCEPT ![t].rendered = Append(@, TaskOpts(tasks, t))]
               /\ UNCHANGED pdfs
    /\ UNCHANGED <<envVars, argv, raw_url_path_pairs, url_path_pairs, cli, jar, mainPc,
                   process, browser, parsed, exit_code, bootFailure>>

\* page.close().await?, the last step of pdf_tab
ClosePage(t) ==
    /\ TaskAt(t, "close_page")
    /\ \E ok \in BOOLEAN :
          IF ok
          THEN /\ tasks' = [TaskSucceeded(tasks, t, "close_page")
                               EXCEPT ![t].page = "closed"]
               /\ browser' = DropTaskArcs(browser)
          ELSE /\ tasks' = TaskFailed(tasks, t, "close_page")
               /\ UNCHANGED browser
    /\ UNCHANGED <<envVars, argv, raw_url_path_pairs, url_path_pairs, cli, jar, mainPc,
                   process, parsed, exit_code, pdfs, bootFailure>>

\* faulty variant: a counter shared without mutual exclusion
MutexAlwaysAvailable(m) == TRUE

\* exit_code.lock().await resolves only while no other guard is alive
MutexAvailable(m) == m.holder = 0

\* if error { exit_code.lock().await ..
LockExitCode(t) ==
    /\ TaskAt(t, "lock")
    /\ tasks[t].error
    /\ MutexAvailable(exit_code)
    /\ exit_code' = [exit_code EXCEPT !.holder = t]
    /\ tasks' = [tasks EXCEPT ![t].pc = "load"]
    /\ UNCHANGED <<envVars, argv, raw_url_path_pairs, url_path_pairs, cli, jar, mainPc,
                   process, browser, parsed, pdfs, bootFailure>>

\* .. *guard += 1: the read of the counter through the guard
LoadExitCode(t) ==
    /\ TaskAt(t, "load")
    /\ tasks' = [tasks EXCEPT ![t].pc = "store", ![t].tmp = exit_code.value]
    /\ UNCHANGED <<envVars, argv, raw_url_path_pairs, url_path_pairs, cli, jar, mainPc,
                   process, browser, parsed, exit_code, pdfs, bootFailure>>

\* .. the write of the counter, the guard's drop at the end of the statement, and
\* the end of the task, which drops its Arc clones
StoreExitCode(t) ==
    /\ TaskAt(t, "store")
    /\ exit_code' = [value |-> tasks[t].tmp + 1, holder |-> 0]
    /\ tasks' = [tasks EXCEPT ![t].pc = "done", ![t].incs = @ + 1]
    /\ browser' = DropTaskArcs(browser)
    /\ UNCHANGED <<envVars, argv, raw_url_path_pairs, url_path_pairs, cli, jar, mainPc,
                   process, parsed, pdfs, bootFailure>>

-----------------------------------------------------------------------------
(* main: join and teardown                                                 *)

\* faulty variant: main goes on as soon as one task has finished
AnyTaskDone == \E t \in DOMAIN tasks : tasks[t].pc = "done"

\* join_all(tasks).await resolves once every JoinHandle has
AllTasksDone ==
    /\ Len(tasks) = Len(url_path_pairs)
    /\ \A t \in DOMAIN tasks : tasks[t].pc = "done"

\* join_all(tasks).await, then Arc::try_unwrap(browser).expect(..): a panic (exit
\* status 101) unless main holds the only reference
JoinAll ==
    /\ Running /\ mainPc = "join"
    /\ AllTasksDone
    /\ IF browser.refs = 1
       THEN /\ mainPc' = "close"
            /\ UNCHANGED process
       ELSE /\ mainPc' = "exited"
            /\ process' = Exited(101)
    /\ UNCHANGED <<envVars, argv, raw_url_path_pairs, url_path_pairs, cli, jar, browser,
                   parsed, exit_code, tasks, pdfs, bootFailure>>

\* close_and_wait: self.close().await?; an Err leaves main through `?`, and the
\* process ends with status 1
CloseBrowser ==
    /\ Running /\ mainPc = "close"
    /\ \E ok \in BOOLEAN :
          IF ok
          THEN /\ browser' = [browser EXCEPT !.state = "closing"]
               /\ mainPc' = "wait"
               /\ UNCHANGED process
          ELSE /\ browser' = [browser EXCEPT !.state = "close_failed"]
               /\ mainPc' = "exited"
               /\ process' = Exited(1)
    /\ UNCHANGED <<envVars, argv, raw_url_path_pairs, url_path_pairs, cli, jar, parsed,
                   exit_code, tasks, pdfs, bootFailure>>

\* close_and_wait: self.wait().await?, then
\* std::process::exit(*exit_code.lock().await)
WaitBrowserAndExit ==
    /\ Running /\ mainPc = "wait"
    /\ MutexAvailable(exit_code)
    /\ \E ok \in BOOLEAN :
          IF ok
          THEN /\ browser' = [browser EXCEPT !.state = "closed"]
               /\ process' = Exited(exit_code.value)
          ELSE /\ browser' = [browser EXCEPT !.state = "wait_failed"]
               /\ process' = Exited(1)
    /\ mainPc' = "exited"
    /\ UNCHANGED <<envVars, argv, raw_url_path_pairs, url_path_pairs, cli, jar, parsed,
                   exit_code, tasks, pdfs, bootFailure>>

-----------------------------------------------------------------------------

TaskStep(t) ==
    \/ NewPage(t)
    \/ EmulatePrint(t)
    \/ EmulateScreen(t)
    \/ LayoutMetrics(t)
    \/ SavePdf(t)
    \/ ClosePage(t)
    \/ LockExitCode(t)
    \/ LoadExitCode(t)
    \/ StoreExitCode(t)

MainStep ==
    \/ ReplaceUrlPathPairs
    \/ NormalizeLocations
    \/ LaunchBrowser
    \/ ClearCookies
    \/ ReadAndParseCookieFile
    \/ SetCookies
    \/ SpawnTask
    \/ JoinAll
    \/ CloseBrowser
    \/ WaitBrowserAndExit

Next == MainStep \/ \E t \in TaskIds : TaskStep(t)

Spec == Init /\ [][Next]_vars

CookieSpec == CookieInit /\ [][Next]_vars

\* a cookie file that parses
GoodJar == JarOf(<<LineComment, LineSid, LineMarkedTrue>>)

\* two work items, every combination of the two mode flags with each of the
\* print option sets, and every content box for each page
OptInit ==
    /\ argv = <<"https://a.test", "/tmp/a.pdf", "/doc/a.html", "/tmp/a.pdf">>
    /\ cli \in {CliOf(mono, screen, "Some", pdf) :
                    mono \in BOOLEAN, screen \in BOOLEAN, pdf \in PdfCliChoices}
    /\ jar = GoodJar
    /\ localFiles = LocalFiles
    /\ contentOf \in [TaskIds -> ContentSizes]
    /\ InitCommon

OptSpec == OptInit /\ [][Next]_vars

\* locations and destinations the file-system runs are started with
FsWords == {"https://a.test", "/doc/a.html", "file:///doc/a.html"}

\* paths that may or may not be existing regular files; the second is the
\* relative path file:/doc/a.html, which is_file() reads "file:///doc/a.html" as
FsPaths == {"/doc/a.html", "file:///doc/a.html"}

\* one or two work items, and every file system over FsPaths
FsInit ==
    /\ argv \in {q \in SeqsBetween(FsWords, 2, MaxArgs) : Len(q) % 2 = 0}
    /\ cli = CliOf(TRUE, TRUE, "Some", DefaultPdfCli)
    /\ jar = GoodJar
    /\ localFiles \in SUBSET FsPaths
    /\ contentOf = [t \in TaskIds |-> Content960]
    /\ InitCommon

FsSpec == FsInit /\ [][Next]_vars

-----------------------------------------------------------------------------
(* lib.rs: PageWeb2Pdf::web2pdf_save_pdf_mono called directly on a page,    *)
(* with any options value                                                   *)

MarginChoices == {NoneNum, SomeNum(Inch4(3937)), SomeNum(Inch4(10000))}

\* options values a caller may pass: each margin on its own, and the other
\* fields unset or set
MonoOptChoices ==
    {[landscape |-> IF set.landscape THEN SomeBool(TRUE) ELSE NoneBool,
      display_header_footer |-> IF set.rest THEN SomeBool(TRUE) ELSE NoneBool,
      print_background |-> IF set.rest THEN SomeBool(FALSE) ELSE SomeBool(TRUE),
      scale |-> IF set.scale THEN SomeNum(200) ELSE NoneNum,
      paper_width |-> IF set.paper THEN SomeNum(Inch4(85000)) ELSE NoneNum,
      paper_height |-> IF set.paper THEN SomeNum(Inch4(110000)) ELSE NoneNum,
      margin_top |-> m.top, margin_bottom |-> m.bottom,
      margin_left |-> m.left, margin_right |-> m.right,
      page_ranges |-> IF set.ranges THEN SomeStr("2-3") ELSE NoneStr,
      header_template |-> IF set.rest THEN SomeStr("<h/>") ELSE NoneStr,
      footer_template |-> IF set.rest THEN SomeStr("<f/>") ELSE NoneStr,
      prefer_css_page_size |-> IF set.rest THEN SomeBool(FALSE) ELSE SomeBool(TRUE)] :
        m \in [top : MarginChoices, bottom : MarginChoices,
               left : MarginChoices, right : MarginChoices],
        set \in [landscape : BOOLEAN, scale : BOOLEAN, paper : BOOLEAN,
                 ranges : BOOLEAN, rest : BOOLEAN]}

\* the call is made on a page whose content box is one of ContentSizes
MonoInit ==
    /\ argv = <<"https://a.test", "/tmp/a.pdf">>
    /\ cli = CliOf(TRUE, FALSE, "None", DefaultPdfCli)
    /\ jar = UnreadableJar
    /\ localFiles = LocalFiles
    /\ contentOf = [t \in TaskIds |-> Content960]
    /\ InitOrchestrator
    /\ \E opts \in MonoOptChoices, content \in ContentSizes :
          lib = [pc |-> "layout_metrics", incoming |-> opts, opts |-> opts,
                 content |-> content, layout |-> <<>>, rendered |-> <<>>,
                 result |-> "none"]

\* web2pdf_save_pdf_mono: self.layout_metrics().await?, then the writes into opts
LibLayoutMetrics ==
    /\ lib.pc = "layout_metrics"
    /\ \E ok \in BOOLEAN :
          lib' = IF ok
                 THEN [lib EXCEPT !.pc = "save_pdf",
                                  !.layout = <<lib.content>>,
                                  !.opts = MonoOverwrite(lib.opts, lib.content)]
                 ELSE [lib EXCEPT !.pc = "done", !.result = "err"]
    /\ UNCHANGED <<argv, raw_url_path_pairs, url_path_pairs, cli, jar, mainPc,
                   process, browser, parsed, exit_code, tasks, pdfs, bootFailure,
                   localFiles, contentOf>>

\* web2pdf_save_pdf_mono: self.save_pdf(opts, output).await?
LibSavePdf ==
    /\ lib.pc = "save_pdf"
    /\ \E ok \in BOOLEAN :
          lib' = [lib EXCEPT !.pc = "done",
                             !.rendered = Append(@, lib.opts),
                             !.result = IF ok THEN "ok" ELSE "err"]
    /\ UNCHANGED <<argv, raw_url_path_pairs, url_path_pairs, cli, jar, mainPc,
                   process, browser, parsed, exit_code, tasks, pdfs, bootFailure,
                   localFiles, contentOf>>

MonoNext == LibLayoutMetrics \/ LibSavePdf

MonoSpec == MonoInit /\ [][MonoNext]_vars

-----------------------------------------------------------------------------
(* Vocabulary of the properties                                            *)

FailedTasks == {t \in DOMAIN tasks : tasks[t].outcome = "failed"}

TasksStarted == tasks # <<>>

\* main is past join_all(tasks).await
Joined == TasksStarted /\ mainPc \in {"close", "wait", "exited"}

AllEngineCalls == UNION {{tasks[t].calls[k] : k \in DOMAIN tasks[t].calls} :
                         t \in DOMAIN tasks}

\* the engine calls pdf_tab makes for one work item when none fails
ExpectedSteps ==
    <<"new_page", "emulate_print">>
        \o (IF cli.screen_media_type THEN <<"emulate_screen">> ELSE <<>>)
        \o (IF cli.mono_page THEN <<"layout_metrics">> ELSE <<>>)
        \o <<"save_pdf", "close_page">>

\* line descriptors, read without the parser
IsCommentDesc(d) == ~d.marked /\ d.fields[1] # <<>> /\ d.fields[1][1] = "#"
NumericTexts == {<<"0">>, <<"1">>, <<"1", "7">>, <<"1", ".", "5">>, <<"-", "1">>}
IsGoodDataDesc(d) ==
    /\ ~IsCommentDesc(d)
    /\ Len(d.fields) = 7
    /\ d.fields[5] \in NumericTexts
IsBlankDesc(d) == ~d.marked /\ d.fields = << <<>> >>
IsBadDesc(d) == ~IsCommentDesc(d) /\ ~IsGoodDataDesc(d)
DataDescs(ds) == SelectSeq(ds, LAMBDA d : ~IsCommentDesc(d) /\ ~IsBlankDesc(d))

ParseCalled == parsed # <<>>

-----------------------------------------------------------------------------
(* Properties                                                              *)

\* C1: one outcome per work item; the shared failure counter is incremented once
\* per failed task with no lost update, never exceeds the number of work items,
\* and after the join equals the number of failed outcomes, in every interleaving.
C1_ExitCountExact ==
    /\ exit_code.value <= Len(argv) \div 2
    /\ exit_code.value = Cardinality({t \in DOMAIN tasks : tasks[t].incs = 1})
    /\ \A t \in DOMAIN tasks :
          /\ tasks[t].outcomes <= 1
          /\ tasks[t].incs <= 1
          /\ tasks[t].incs = 1 => tasks[t].outcome = "failed"
          /\ tasks[t].pc = "done" =>
                /\ tasks[t].outcomes = 1
                /\ tasks[t].incs = IF tasks[t].outcome = "failed" THEN 1 ELSE 0
    /\ Joined =>
          /\ Len(tasks) = Len(argv) \div 2
          /\ \A t \in DOMAIN tasks : tasks[t].outcomes = 1
          /\ exit_code.value = Cardinality(FailedTasks)

\* two work items, both failed, main past the join
C1_Witness ==
    /\ mainPc = "close"
    /\ Len(tasks) = 2
    /\ FailedTasks = {1, 2}

\* C2: a task's outcome is decided by its own engine calls alone: it is failed
\* exactly when one of its own calls failed, and by the join every task has run
\* its own steps, in order, up to its own first failure or to the end.
C2_TasksIndependent ==
    \A t \in DOMAIN tasks :
        LET calls == tasks[t].calls
            n == Len(calls)
        IN /\ n <= Len(ExpectedSteps)
           /\ \A k \in 1..n : calls[k].op = ExpectedSteps[k]
           /\ \A k \in 1..n : ~calls[k].ok => k = n
           /\ tasks[t].outcome = "failed" <=> (n > 0 /\ ~calls[n].ok)
           /\ tasks[t].outcome = "ok" <=>
                 (n = Len(ExpectedSteps) /\ \A k \in 1..n : calls[k].ok)
           /\ Joined => tasks[t].outcome # "none"

\* the first work item failed at its first call, the second ran all its steps
C2_Witness ==
    /\ Joined
    /\ Len(tasks) = 2
    /\ tasks[1].outcome = "failed" /\ Len(tasks[1].calls) = 1
    /\ tasks[2].outcome = "ok"

\* C3: once tasks were started, the status the process exits with is the number
\* of work items that failed, and 0 exactly when none failed, on every path from
\* the join to the exit.
C3_ExitStatusIsFailureCount ==
    (process.exited /\ TasksStarted) =>
        /\ process.status = Cardinality(FailedTasks)
        /\ process.status = 0 <=> FailedTasks = {}

C5_PairingAndOddArgs ==
    /\ (Len(argv) % 2 = 1 /\ mainPc # "parse_args") =>
          /\ process.exited /\ process.status = 1
          /\ url_path_pairs = <<>>
          /\ browser = NoBrowser
          /\ tasks = <<>> /\ pdfs = {} /\ parsed = <<>>
    /\ (Len(argv) % 2 = 0 /\ mainPc # "parse_args") =>
          /\ Len(url_path_pairs) = Len(argv) \div 2
          /\ \A i \in DOMAIN url_path_pairs :
                /\ url_path_pairs[i].path = argv[2 * i]
                /\ url_path_pairs[i].url \in
                      {argv[2 * i - 1], "file://" \o argv[2 * i - 1]}
                /\ mainPc = "normalize" => url_path_pairs[i].url = argv[2 * i - 1]

\* three words were given and the process has exited
C5_Witness ==
    /\ Len(argv) = 3
    /\ process.exited

\* C6: a failed launch, or a failed read, parse or installation of the cookie
\* jar, ends the process with status 1 before any task exists: no page request,
\* no PDF, and nothing counted in the failure counter.
C6_StartupFailureIsFatal ==
    bootFailure \in {"launch", "cookie_read", "cookie_parse", "cookie_install"} =>
        /\ process.exited /\ process.status = 1
        /\ tasks = <<>>
        /\ AllEngineCalls = {}
        /\ pdfs = {}
        /\ exit_code.value = 0

\* the cookie jar did not parse and the process has exited
C6_Witness ==
    /\ bootFailure = "cookie_parse"
    /\ process.exited

\* C7: when some non-comment line of the cookie file has a field count other
\* than 7 or an expiry that is no number, parse_cookie_file returns an error
\* that carries no records, and the session holds no cookie.
C7_ParseAllOrNothing ==
    (ParseCalled /\ \E i \in DOMAIN jar.lines : IsBadDesc(jar.lines[i])) =>
        /\ ~parsed[1].ok
        /\ "cookies" \notin DOMAIN parsed[1]
        /\ browser.cookies = <<>>
        /\ bootFailure = "cookie_parse"

\* two valid lines came before the malformed one
C7_Witness ==
    /\ ParseCalled
    /\ jar.lines = <<LineSid, LineMarkedTrue, LineSix>>

\* C8: in a parsed file, the record of a #HttpOnly_ line has http_only = true
\* whatever its field 4 holds, and the record of an unmarked line has
\* http_only = true exactly when field 4 is TRUE.
C8_MarkerForcesHttpOnly ==
    (ParseCalled /\ parsed[1].ok) =>
        LET ds == DataDescs(jar.lines) IN
        \A k \in DOMAIN parsed[1].cookies :
            k \in DOMAIN ds =>
                parsed[1].cookies[k].http_only =
                    (ds[k].marked \/ ds[k].fields[4] = TrueLit)

\* C9: a file of comment lines and well-formed data lines parses to one record
\* per data line, in the order of the lines; #HttpOnly_ lines are data lines and
\* other # lines give no record.
C9_OneRecordPerDataLine ==
    (ParseCalled /\ \A i \in DOMAIN jar.lines :
                       IsCommentDesc(jar.lines[i]) \/ IsGoodDataDesc(jar.lines[i])) =>
        LET ds == DataDescs(jar.lines) IN
        /\ parsed[1].ok
        /\ Len(parsed[1].cookies) = Len(ds)
        /\ \A k \in DOMAIN ds :
              /\ parsed[1].cookies[k].domain = ds[k].fields[1]
              /\ parsed[1].cookies[k].name = ds[k].fields[6]
              /\ parsed[1].cookies[k].value = ds[k].fields[7]

\* a marked line, a comment and an unmarked line parsed to two records
C9_Witness ==
    /\ ParseCalled
    /\ jar.lines = <<LineMarkedFalse, LineComment, LineSid>>
    /\ Len(parsed[1].cookies) = 2

\* C10: a file of well-formed data lines, comments and entirely blank lines
\* parses, and to one record per data line.
C10_BlankLineSkipped ==
    (ParseCalled /\ \A i \in DOMAIN jar.lines :
                       \/ IsCommentDesc(jar.lines[i])
                       \/ IsGoodDataDesc(jar.lines[i])
                       \/ IsBlankDesc(jar.lines[i])) =>
        /\ parsed[1].ok
        /\ Len(parsed[1].cookies) = Len(DataDescs(jar.lines))


\* C11: in mono mode the paper size of the render call is the content box
\* divided by 96 plus the two margins of that axis, an unset margin counting as
\* 0.4 in on its own; content 960 x 1200 px with no margin set gives 10.8 in by
\* 13.3 in.
C11_MonoPaperSize ==
    lib.rendered # <<>> =>
        LET r == lib.rendered[1]
            given == lib.incoming
            margin(o) == IF o.some THEN o.v ELSE Inch4(4000)
        IN /\ r.paper_width =
                 SomeNum(lib.content.width * 10000
                         + margin(given.margin_left) + margin(given.margin_right))
           /\ r.paper_height =
                 SomeNum(lib.content.height * 10000
                         + margin(given.margin_top) + margin(given.margin_bottom))
           /\ (/\ lib.content = [width |-> 960, height |-> 1200]
               /\ ~given.margin_top.some /\ ~given.margin_bottom.some
               /\ ~given.margin_left.some /\ ~given.margin_right.some) =>
                 /\ r.paper_width = SomeNum(Inch4(108000))
                 /\ r.paper_height = SomeNum(Inch4(133000))

\* a render call for content 960 x 1200 px with no margin set
C11_Witness ==
    /\ lib.rendered # <<>>
    /\ lib.content = Content960
    /\ ~lib.incoming.margin_top.some
    /\ ~lib.incoming.margin_bottom.some
    /\ ~lib.incoming.margin_left.some /\ ~lib.incoming.margin_right.some

CallsOf(t) == tasks[t].calls
PositionsOf(t, op) == {k \in DOMAIN CallsOf(t) : CallsOf(t)[k].op = op}
OkBefore(t, op, k) == \E i \in PositionsOf(t, op) : i < k /\ CallsOf(t)[i].ok

\* main has begun to close the session
CloseBegun ==
    \/ mainPc \in {"close", "wait"}
    \/ browser.state \in {"closing", "closed", "close_failed", "wait_failed"}

\* C13: the session's bootstrap calls are launch, clear_cookies and, only when a
\* cookie jar was given, set_cookies, in that order and each once; when the first
\* task exists all of them have returned, the jar has been parsed, and the
\* session holds exactly the jar's records.
C13_BootstrapBeforeTasks ==
    LET given == cli.cookie_jar = "Some"
        boot == <<"launch", "clear_cookies">>
                    \o (IF given THEN <<"set_cookies">> ELSE <<>>)
        n == Len(browser.events)
    IN /\ n <= Len(boot)
       /\ browser.events = SubSeq(boot, 1, n)
       /\ ~given => parsed = <<>>
       /\ TasksStarted =>
             /\ browser.events = boot
             /\ Len(parsed) = IF given THEN 1 ELSE 0
             /\ IF given
                THEN parsed[1].ok /\ browser.cookies = parsed[1].cookies
                ELSE browser.cookies = <<>>

\* a task has requested its page in a session that holds the jar's two records
C13_Witness ==
    /\ cli.cookie_jar = "Some"
    /\ Len(browser.cookies) = 2
    /\ \E t \in DOMAIN tasks : CallsOf(t) # <<>>

\* C14: main never panics on the ownership check, and once it has begun to close
\* the session every work item has a task, every task has ended, and main holds
\* the only reference to the session.
C14_TeardownHasSoleOwnership ==
    /\ process.status # 101
    /\ CloseBegun =>
          /\ Len(tasks) = Len(url_path_pairs)
          /\ \A t \in DOMAIN tasks : tasks[t].pc = "done"
          /\ browser.refs = 1

\* close() has returned after two tasks, one of them failed
C14_Witness ==
    /\ browser.state = "closing"
    /\ Len(tasks) = 2
    /\ Cardinality(FailedTasks) = 1

\* C15: a failed engine call is the last call of its task; close_page is called
\* only after a save_pdf that returned Ok, so a page whose emulation, measurement
\* or render failed stays open; the task of a failed call has one outcome,
\* failed, and adds one to the counter.
C15_FirstFailureEndsTask ==
    \A t \in DOMAIN tasks :
        LET n == Len(CallsOf(t)) IN
        /\ \A k \in 1..n : ~CallsOf(t)[k].ok => k = n
        /\ \A k \in PositionsOf(t, "close_page") : OkBefore(t, "save_pdf", k)
        /\ (n > 0 /\ ~CallsOf(t)[n].ok) =>
              /\ tasks[t].outcome = "failed"
              /\ tasks[t].outcomes = 1
              /\ tasks[t].pc \in {"lock", "load", "store", "done"}
              /\ tasks[t].incs = IF tasks[t].pc = "done" THEN 1 ELSE 0
              /\ tasks[t].page # "closed"

\* a task has ended after its layout measurement failed
C15_Witness ==
    \E t \in DOMAIN tasks :
        /\ tasks[t].pc = "done"
        /\ \E k \in PositionsOf(t, "layout_metrics") : ~CallsOf(t)[k].ok
        /\ tasks[t].page = "open"

\* C16: in mono mode layout_metrics is called after new_page returned the page,
\* save_pdf only after layout_metrics returned Ok, and the paper size save_pdf is
\* given is the one of the box measured on that page, not one known before.
C16_MeasureBetweenPageAndRender ==
    cli.mono_page =>
        \A t \in DOMAIN tasks :
            /\ \A k \in PositionsOf(t, "layout_metrics") : OkBefore(t, "new_page", k)
            /\ \A k \in PositionsOf(t, "save_pdf") : OkBefore(t, "layout_metrics", k)
            /\ PositionsOf(t, "layout_metrics") = {} => tasks[t].layout = <<>>
            /\ tasks[t].layout = <<>> => tasks[t].rendered = <<>>
            /\ tasks[t].rendered # <<>> =>
                  /\ tasks[t].layout = <<contentOf[t]>>
                  /\ tasks[t].rendered[1].paper_width =
                        SomeNum(contentOf[t].width * 10000
                                + cli.margin_left + cli.margin_right)
                  /\ tasks[t].rendered[1].paper_height =
                        SomeNum(contentOf[t].height * 10000
                                + cli.margin_top + cli.margin_bottom)

\* a mono render of the tall page under a configuration with a fixed paper size
C16_Witness ==
    /\ cli.mono_page
    /\ cli.paper_width.some
    /\ \E t \in DOMAIN tasks :
          /\ contentOf[t] = ContentTall
          /\ tasks[t].rendered # <<>>

\* C17: with screen_media_type set, every layout_metrics and save_pdf call of a
\* task is made while its page emulates screen, after an emulate_screen call
\* that returned Ok and that itself followed new_page.
C17_ScreenBeforeMeasureAndRender ==
    cli.screen_media_type =>
        \A t \in DOMAIN tasks :
            /\ \A k \in PositionsOf(t, "layout_metrics") \cup PositionsOf(t, "save_pdf") :
                  /\ CallsOf(t)[k].media = "screen"
                  /\ OkBefore(t, "emulate_screen", k)
            /\ \A k \in PositionsOf(t, "emulate_screen") : OkBefore(t, "new_page", k)

\* a task measured and rendered its page with screen_media_type set
C17_Witness ==
    /\ cli.screen_media_type
    /\ \E t \in DOMAIN tasks :
          /\ PositionsOf(t, "layout_metrics") # {}
          /\ PositionsOf(t, "save_pdf") # {}

\* what the options of task t are, given the shared Cli and its own page alone
OwnOptions(t) ==
    IF cli.mono_page /\ tasks[t].layout # <<>>
    THEN [PdfParams(cli) EXCEPT
             !.scale = NoneNum, !.landscape = SomeBool(FALSE),
             !.page_ranges = SomeStr("1"),
             !.paper_width = SomeNum(contentOf[t].width * 10000
                                     + cli.margin_left + cli.margin_right),
             !.paper_height = SomeNum(contentOf[t].height * 10000
                                      + cli.margin_top + cli.margin_bottom)]
    ELSE PdfParams(cli)

\* C18: the options a task holds and the options its save_pdf call was given
\* depend on the shared Cli and on the task's own page only, whatever the other
\* tasks have written; no step changes the Cli, and a step that changes the
\* options of one task leaves those of every other task as they were.
C18_OptionsPerTask ==
    /\ [](\A t \in DOMAIN tasks :
             /\ tasks[t].opts = OwnOptions(t)
             /\ \A k \in DOMAIN tasks[t].rendered : tasks[t].rendered[k] = OwnOptions(t))
    /\ [][/\ cli' = cli
          /\ \A t \in DOMAIN tasks :
                tasks'[t].opts # tasks[t].opts =>
                    \A u \in DOMAIN tasks \ {t} : tasks'[u].opts = tasks[u].opts]_vars

\* two mono tasks rendered pages of different sizes
C18_Witness ==
    /\ cli.mono_page
    /\ Len(tasks) = 2
    /\ contentOf[1] # contentOf[2]
    /\ tasks[1].rendered # <<>> /\ tasks[2].rendered # <<>>
    /\ tasks[1].rendered[1] # tasks[2].rendered[1]

\* C19: every work item has at most one task, and a task calls new_page,
\* layout_metrics and save_pdf at most once each, whether the calls returned Ok
\* or Err; the cookie file is parsed at most once.
C19_NoRetry ==
    /\ Len(parsed) <= 1
    /\ Len(tasks) <= Len(url_path_pairs)
    /\ \A t \in DOMAIN tasks :
          /\ \A op \in {"new_page", "layout_metrics", "save_pdf"} :
                Cardinality(PositionsOf(t, op)) <= 1
          /\ Len(tasks[t].rendered) <= 1

\* both tasks have ended, one after a failed new_page and one after a failed
\* save_pdf, in a run that parsed a cookie file
C19_Witness ==
    /\ Len(parsed) = 1
    /\ Len(tasks) = 2
    /\ \A t \in DOMAIN tasks : tasks[t].pc = "done"
    /\ \E k \in PositionsOf(1, "new_page") : ~CallsOf(1)[k].ok
    /\ \E k \in PositionsOf(2, "save_pdf") : ~CallsOf(2)[k].ok

\* main is past the is_file() loop
Normalized == mainPc \notin {"parse_args", "normalize"} /\ url_path_pairs # <<>>

\* every work item's location is its argument, with file:// in front when the
\* argument is an existing file, and its destination is its argument
RewrittenOnce ==
    /\ Len(url_path_pairs) = Len(argv) \div 2
    /\ \A i \in DOMAIN url_path_pairs :
          /\ url_path_pairs[i].url =
                IF argv[2 * i - 1] \in localFiles THEN "file://" \o argv[2 * i - 1]
                ELSE argv[2 * i - 1]
          /\ url_path_pairs[i].path = argv[2 * i]

\* C20 as stated: after the one normalization, which precedes every task, a
\* second normalization of any location would change nothing.
C20_NormalizeIdempotent ==
    /\ TasksStarted => Normalized
    /\ Normalized =>
          /\ RewrittenOnce
          /\ \A i \in DOMAIN url_path_pairs :
                NormalizeUrl(url_path_pairs[i].url) = url_path_pairs[i].url

\* C20, amended: a second normalization would change nothing except for a
\* rewritten location whose new text, file:// followed by the path, is itself the
\* path of an existing file; that one would be rewritten again.
C20_NormalizeIdempotentUnlessFile ==
    /\ TasksStarted => Normalized
    /\ Normalized =>
          /\ RewrittenOnce
          /\ \A i \in DOMAIN url_path_pairs :
                LET arg == argv[2 * i - 1]
                    again == NormalizeUrl(url_path_pairs[i].url)
                IN IF arg \in localFiles /\ ("file://" \o arg) \in localFiles
                   THEN again = "file://" \o url_path_pairs[i].url
                   ELSE again = url_path_pairs[i].url

\* a task runs on a rewritten location next to one that was left as it was, and
\* the destination of the first is an existing file
C20_Witness ==
    /\ TasksStarted
    /\ Len(url_path_pairs) = 2
    /\ argv[1] = "/doc/a.html" /\ argv[2] = "/doc/a.html"
    /\ url_path_pairs[1].url = "file:///doc/a.html"
    /\ url_path_pairs[2].url = "https://a.test"
    /\ localFiles = {"/doc/a.html"}


\* the number a field-5 text of the data lines stands for, as num / den seconds
SecondsOf(text) ==
    CASE text = <<"0">> -> [num |-> 0, den |-> 1]
      [] text = <<"1">> -> [num |-> 1, den |-> 1]
      [] text = <<"1", "7">> -> [num |-> 17, den |-> 1]
      [] text = <<"1", ".", "5">> -> [num |-> 15, den |-> 10]
      [] text = <<"-", "1">> -> [num |-> -1, den |-> 1]

\* C21: in a file that parses, the record of each 7-field data line has domain =
\* field 1, same_site = Strict exactly when field 2 is TRUE and Lax otherwise,
\* path = field 3, expires = the number field 5 spells, name = field 6 and
\* value = field 7, character for character.
C21_RecordFieldByField ==
    (ParseCalled /\ parsed[1].ok) =>
        LET ds == DataDescs(jar.lines) IN
        /\ Len(parsed[1].cookies) = Len(ds)
        /\ \A k \in DOMAIN ds :
              LET f == ds[k].fields
                  cookie == parsed[1].cookies[k]
              IN /\ Len(f) = 7
                 /\ cookie.domain = f[1]
                 /\ cookie.same_site =
                       IF f[2] = <<"T", "R", "U", "E">> THEN "Strict" ELSE "Lax"
                 /\ cookie.path = f[3]
                 /\ cookie.expires = SecondsOf(f[5])
                 /\ cookie.name = f[6]
                 /\ cookie.value = f[7]

\* a file whose lines have field 2 = true, TRUE and FALSE parsed to three records
C21_Witness ==
    /\ ParseCalled
    /\ jar.lines = <<LineLower, LineSid, LineTok>>
    /\ parsed[1].ok
    /\ Len(parsed[1].cookies) = 3

C23_PrintEmulationFirst ==
    \A t \in DOMAIN tasks :
        /\ \A k \in DOMAIN CallsOf(t) :
              CallsOf(t)[k].op \notin {"new_page", "emulate_print"} =>
                  OkBefore(t, "emulate_print", k)
        /\ \A k \in PositionsOf(t, "layout_metrics") \cup PositionsOf(t, "save_pdf") :
              CallsOf(t)[k].media =
                  IF cli.screen_media_type THEN "screen" ELSE "print"
        /\ \A k \in PositionsOf(t, "emulate_print") :
              /\ k = 2
              /\ ~CallsOf(t)[k].ok =>
                    /\ Len(CallsOf(t)) = 2
                    /\ tasks[t].outcome = "failed"
                    /\ tasks[t].media = "default"

\* one task ended after its print emulation failed, the other rendered its page
\* under print
C23_Witness ==
    /\ ~cli.screen_media_type
    /\ Len(tasks) = 2
    /\ tasks[1].pc = "done"
    /\ \E k \in PositionsOf(1, "emulate_print") : ~CallsOf(1)[k].ok
    /\ \E k \in PositionsOf(2, "save_pdf") : CallsOf(2)[k].media = "print"

====
